---- MODULE Spec2Model ----
(***************************************************************************)
(* Model of axiom-patterns/axiompatterns.py: the exclusion filter          *)
(* (ignore), the name generators and the Context, the canonicalizer (sub,  *)
(* normalise), the renderer (to_ms) and the pattern aggregator             *)
(* (analyse_file, main, _save_result).                                     *)
(*                                                                         *)
(* A pyhornedowl model object is a record                                  *)
(*     [tag, first, n, kids]                                               *)
(* tag   : the Python class of the object,                                 *)
(* first : the IRI it carries (entities, Datatype, BuiltInAtom.pred,       *)
(*         AnnotationPropertyDomain.iri, literals' text), NoIRI otherwise, *)
(* n     : the cardinality of Object/Data Min/Max/ExactCardinality, else 0,*)
(* kids  : the remaining fields in constructor order; a field that is a    *)
(*         Python list or tuple is one kid with tag "list".                *)
(***************************************************************************)
EXTENDS Integers, Sequences, FiniteSets, TLC

\* ------------------------------------------------------------------ bounds
\* input files given on the command line
MaxFiles == 2
\* axioms read in one multi-file run, over all its files
MaxAxioms == 3
\* nesting depth of the class expressions of the single-axiom runs
MaxDepth == 1
\* names drawn from one generator
MaxIndex == 17
\* normalise calls made on one shared Context
MaxCalls == 3
\* the index handed to _index_to_str in the runs of it alone
MaxArgument == 80

\* ------------------------------------------------------------ object model
NoIRI == [iri |-> ""]

\* IRI.parse(s): the IRI object of a string
IRIparse(s) == [iri |-> s]

\* str(iri): the string of an IRI object
IRIstr(i) == i.iri

Node(tag, first, n, kids) == [tag |-> tag, first |-> first, n |-> n, kids |-> kids]

\* type(value)(iri) for the entity classes
Entity(kind, iri) == Node(kind, iri, 0, <<>>)

Compound(tag, kids) == Node(tag, NoIRI, 0, kids)

PyList(items) == Node("list", NoIRI, 0, items)

EntityKinds == {"ObjectProperty", "DataProperty", "AnnotationProperty", "Class", "Variable"}

PropertyKinds == {"ObjectProperty", "DataProperty", "AnnotationProperty"}

\* ------------------------------------------------------------------ text
Digits == <<"0", "1", "2", "3", "4", "5", "6", "7", "8", "9">>

\* str(i) of a non-negative int, as an f-string interpolates it
RECURSIVE IntStr(_)
IntStr(i) == IF i < 10 THEN Digits[i + 1] ELSE IntStr(i \div 10) \o Digits[(i % 10) + 1]

\* sep.join(parts)
RECURSIVE Join(_, _)
Join(sep, parts) ==
    IF parts = <<>> THEN ""
    ELSE IF Len(parts) = 1 THEN parts[1]
    ELSE parts[1] \o sep \o Join(sep, Tail(parts))

Letters == <<"A", "B", "C", "D", "E", "F", "G", "H", "I", "J", "K", "L", "M",
             "N", "O", "P", "Q", "R", "S", "T", "U", "V", "W", "X", "Y", "Z">>

OrdA == 65

\* ord(c) of an upper-case letter
Ord(c) == OrdA - 1 + CHOOSE i \in 1..Len(Letters) : Letters[i] = c

\* chr(c) of an upper-case letter's code
Chr(c) == Letters[c - OrdA + 1]

\* list(range(lo, hi)): lo, lo+1, ..., hi-1
PyRange(lo, hi) == [i \in 1..(IF hi > lo THEN hi - lo ELSE 0) |-> lo + i - 1]

\* --------------------------------------------------------- name generators
RECURSIVE IndexToStrLoop(_, _, _)
IndexToStrLoop(index, res, choices) ==
    IF index >= 0
    THEN IndexToStrLoop((index \div Len(choices)) - 1,
                        choices[(index % Len(choices)) + 1] \o res, choices)
    ELSE res

\* _index_to_str(index, choices)
IndexToStr(index, choices) == IndexToStrLoop(index, "", choices)

\* [chr(c) for c in range(ord("A"), ord("O"))]
ClassChoices == [i \in DOMAIN PyRange(Ord("A"), Ord("O")) |-> Chr(PyRange(Ord("A"), Ord("O"))[i])]

PropertyChoices == <<"R", "S", "T", "U", "V", "W", "P", "Q">>

\* the i-th item (from 0) of class_generator()
ClassName(i) == IndexToStr(i, ClassChoices)

\* the i-th item (from 0) of property_generator()
PropertyName(i) == IndexToStr(i, PropertyChoices)

\* the i-th item (from 0) of var_generator()
VarName(i) == "X" \o IntStr(i)

\* ----------------------------------------------------------------- Context
\* Context(): no substitutions, three generators none of which has yielded.
\* substitutions is the dict as its items in insertion order; a generator is
\* the number of items it has yielded.
NewContext == [substitutions |-> <<>>, properties |-> 0, classes |-> 0, variables |-> 0]

\* key in d
DictHas(d, key) == \E i \in 1..Len(d) : d[i].k = key

\* d[key]
Get(d, key) == d[CHOOSE i \in 1..Len(d) : d[i].k = key].v

\* d[key] = val, on a dict without the key
Put(d, key, val) == Append(d, [k |-> key, v |-> val])

\* what sub() draws for an identifier with no substitution yet: the next item
\* of the generator of the entity's class, recorded in ctx.substitutions
Draw(value, ctx) ==
    LET iri == IRIstr(value.first)
        name == CASE value.tag = "Class" -> ClassName(ctx.classes)
                  [] value.tag \in PropertyKinds -> PropertyName(ctx.properties)
                  [] value.tag = "Variable" -> VarName(ctx.variables)
        s == IRIparse(name)
    IN  [ctx |-> [substitutions |-> Put(ctx.substitutions, iri, s),
                  properties |-> ctx.properties + (IF value.tag \in PropertyKinds THEN 1 ELSE 0),
                  classes |-> ctx.classes + (IF value.tag = "Class" THEN 1 ELSE 0),
                  variables |-> ctx.variables + (IF value.tag = "Variable" THEN 1 ELSE 0)],
         node |-> Entity(value.tag, s)]

\* sub(value, ctx): the entity renamed, and the Context afterwards
Sub(value, ctx) ==
    LET iri == IRIstr(value.first)
    IN  IF DictHas(ctx.substitutions, iri)
        THEN [ctx |-> ctx, node |-> Entity(value.tag, Get(ctx.substitutions, iri))]
        ELSE Draw(value, ctx)

\* ----------------------------------------------------------------- normalise
\* classes whose every field normalise() passes to normalise(), in order
NormaliseEveryField ==
    {"InverseObjectProperty", "ObjectComplementOf", "ObjectSomeValuesFrom",
     "ObjectAllValuesFrom", "ObjectHasSelf", "ObjectMinCardinality",
     "ObjectMaxCardinality", "ObjectExactCardinality", "ClassAtom",
     "DifferentIndividualsAtom", "SameIndividualAtom", "SubClassOf",
     "InverseObjectProperties", "ObjectPropertyDomain",
     "FunctionalObjectProperty", "InverseFunctionalObjectProperty",
     "ReflexiveObjectProperty", "IrreflexiveObjectProperty",
     "SymmetricObjectProperty", "AsymmetricObjectProperty",
     "TransitiveObjectProperty", "SubDataPropertyOf", "DataPropertyDomain",
     "FunctionalDataProperty", "SubAnnotationPropertyOf"}

\* classes of which normalise() normalises the one list field, item by item
NormaliseListField ==
    {"ObjectIntersectionOf", "ObjectUnionOf", "EquivalentClasses", "DisjointClasses",
     "EquivalentObjectProperties", "DisjointObjectProperties",
     "EquivalentDataProperties", "DisjointDataProperties"}

\* classes of which normalise() normalises the property and keeps the data
\* range or the IRI beside it
NormaliseFirstField ==
    {"DataSomeValuesFrom", "DataAllValuesFrom", "DataMinCardinality",
     "DataMaxCardinality", "DataExactCardinality", "DataPropertyRange",
     "AnnotationPropertyDomain", "AnnotationPropertyRange"}

\* isinstance(value, ObjectPropertyExpression)
IsObjectPropertyExpression(value) == value.tag \in {"ObjectProperty", "InverseObjectProperty"}

RECURSIVE Normalise(_, _)
RECURSIVE NormaliseEach(_, _)

\* [normalise(v, ctx) for v in items], left to right on the one Context
NormaliseEach(items, ctx) ==
    IF items = <<>> THEN [ctx |-> ctx, nodes |-> <<>>]
    ELSE LET h == Normalise(Head(items), ctx)
             t == NormaliseEach(Tail(items), h.ctx)
         IN  [ctx |-> t.ctx, nodes |-> <<h.node>> \o t.nodes]

\* normalise(value, ctx): the normalised object, and the Context afterwards
Normalise(value, ctx) ==
    LET t == value.tag
        k == value.kids
        Built(tag, r) == [ctx |-> r.ctx, node |-> Node(tag, value.first, value.n, r.nodes)]
        InList(r) == [ctx |-> r.ctx, nodes |-> <<PyList(r.nodes)>>]
    IN  CASE t \in EntityKinds -> Sub(value, ctx)
          [] t \in NormaliseEveryField -> Built(t, NormaliseEach(k, ctx))
          [] t \in NormaliseListField -> Built(t, InList(NormaliseEach(k[1].kids, ctx)))
          [] t \in NormaliseFirstField ->
                LET r == Normalise(k[1], ctx)
                IN  Built(t, [ctx |-> r.ctx, nodes |-> <<r.node>> \o Tail(k)])
          [] t = "BuiltInAtom" -> Built(t, InList(NormaliseEach(k[1].kids, ctx)))
          [] t \in {"DataPropertyAtom", "ObjectPropertyAtom"} ->
                LET p == Normalise(k[1], ctx)
                    a == NormaliseEach(k[2].kids, p.ctx)
                IN  Built(t, [ctx |-> a.ctx, nodes |-> <<p.node, PyList(a.nodes)>>])
          [] t = "DisjointUnion" ->
                LET c == Sub(k[1], ctx)
                    l == NormaliseEach(k[2].kids, c.ctx)
                IN  Built(t, [ctx |-> l.ctx, nodes |-> <<c.node, PyList(l.nodes)>>])
          [] t = "SubObjectPropertyOf" ->
                IF IsObjectPropertyExpression(k[1])
                THEN Built(t, NormaliseEach(k, ctx))
                ELSE LET l == NormaliseEach(k[1].kids, ctx)
                         s == Normalise(k[2], l.ctx)
                     IN  Built(t, [ctx |-> s.ctx, nodes |-> <<PyList(l.nodes), s.node>>])
          [] t = "ObjectPropertyRange" -> Built("ObjectPropertyDomain", NormaliseEach(k, ctx))
          [] t = "HasKey" ->
                LET c == Normalise(k[1], ctx)
                    l == NormaliseEach(k[2].kids, c.ctx)
                IN  Built(t, [ctx |-> l.ctx, nodes |-> <<c.node, PyList(l.nodes)>>])
          [] t = "Rule" ->
                LET h == NormaliseEach(k[1].kids, ctx)
                    b == NormaliseEach(k[2].kids, h.ctx)
                IN  Built(t, [ctx |-> b.ctx, nodes |-> <<PyList(h.nodes), PyList(b.nodes)>>])
          [] OTHER -> [ctx |-> ctx, node |-> value]

\* -------------------------------------------------------------------- to_ms
\* str(value) of a model object, which pyhornedowl renders in functional
\* syntax: an entity or datatype as <iri>, a literal as "text", any other
\* object as Class(field field ...)
RECURSIVE PyStr(_)
PyStr(value) ==
    LET parts == [i \in DOMAIN value.kids |-> PyStr(value.kids[i])]
    IN  CASE value.tag \in EntityKinds \cup {"NamedIndividual", "AnonymousIndividual", "Datatype"} ->
                "<" \o IRIstr(value.first) \o ">"
          [] value.tag = "SimpleLiteral" -> "\"" \o IRIstr(value.first) \o "\""
          [] value.tag = "list" -> Join(" ", parts)
          [] OTHER ->
                value.tag \o "("
                    \o Join(" ", (IF value.first = NoIRI THEN <<>> ELSE <<"<" \o IRIstr(value.first) \o ">">>)
                                 \o (IF value.n = 0 THEN <<>> ELSE <<IntStr(value.n)>>)
                                 \o parts)
                    \o ")"

Characteristic(tag) ==
    CASE tag = "FunctionalObjectProperty" -> "Functional"
      [] tag = "InverseFunctionalObjectProperty" -> "InverseFunctional"
      [] tag = "ReflexiveObjectProperty" -> "Reflexive"
      [] tag = "IrreflexiveObjectProperty" -> "Irreflexive"
      [] tag = "SymmetricObjectProperty" -> "Symmetric"
      [] tag = "AsymmetricObjectProperty" -> "Asymmetric"
      [] tag = "TransitiveObjectProperty" -> "Transitive"

\* the keyword to_ms writes between the operands of a restriction
Restriction(tag) ==
    CASE tag \in {"ObjectSomeValuesFrom", "DataSomeValuesFrom"} -> "some"
      [] tag \in {"ObjectAllValuesFrom", "DataAllValuesFrom"} -> "only"
      [] tag \in {"ObjectMinCardinality", "DataMinCardinality"} -> "min"
      [] tag \in {"ObjectMaxCardinality", "DataMaxCardinality"} -> "max"
      [] tag \in {"ObjectExactCardinality", "DataExactCardinality"} -> "exactly"

\* to_ms(value)
RECURSIVE ToMs(_)
ToMs(value) ==
    LET t == value.tag
        k == value.kids
        Each(items) == [i \in DOMAIN items |-> ToMs(items[i])]
    IN  CASE t \in EntityKinds -> IRIstr(value.first)
          [] t = "InverseObjectProperty" -> "not " \o ToMs(k[1])
          [] t = "ObjectIntersectionOf" -> "(" \o Join(" and ", Each(k[1].kids)) \o ")"
          [] t = "ObjectUnionOf" -> "(" \o Join(" or ", Each(k[1].kids)) \o ")"
          [] t = "ObjectComplementOf" -> "not (" \o ToMs(k[1]) \o ")"
          [] t \in {"ObjectSomeValuesFrom", "ObjectAllValuesFrom"} ->
                "(" \o ToMs(k[1]) \o " " \o Restriction(t) \o " " \o ToMs(k[2]) \o ")"
          [] t = "ObjectHasSelf" -> "(" \o ToMs(k[1]) \o " Self)"
          [] t \in {"ObjectMinCardinality", "ObjectMaxCardinality", "ObjectExactCardinality"} ->
                "(" \o ToMs(k[1]) \o " " \o Restriction(t) \o " " \o IntStr(value.n)
                    \o " " \o ToMs(k[2]) \o ")"
          [] t \in {"DataSomeValuesFrom", "DataAllValuesFrom"} ->
                "(" \o PyStr(k[1]) \o " " \o Restriction(t) \o " " \o PyStr(k[2]) \o ")"
          [] t \in {"DataMinCardinality", "DataMaxCardinality", "DataExactCardinality"} ->
                "(" \o PyStr(k[1]) \o " " \o Restriction(t) \o " " \o IntStr(value.n)
                    \o " " \o PyStr(k[2]) \o ")"
          [] t = "DataHasValue" -> "(" \o PyStr(k[1]) \o " value " \o PyStr(k[2]) \o ")"
          [] t = "BuiltInAtom" ->
                IRIstr(value.first) \o "(" \o Join(", ", Each(k[1].kids)) \o ")"
          [] t = "ClassAtom" -> ToMs(k[1]) \o "(" \o ToMs(k[2]) \o ")"
          [] t \in {"DataPropertyAtom", "ObjectPropertyAtom"} ->
                PyStr(k[1]) \o "(" \o Join(", ", Each(k[2].kids)) \o ")"
          [] t = "DifferentIndividualsAtom" ->
                "DifferentIndividuals(" \o ToMs(k[1]) \o ", " \o ToMs(k[2]) \o ")"
          [] t = "SameIndividualAtom" ->
                "SameIndividual(" \o ToMs(k[1]) \o ", " \o ToMs(k[2]) \o ")"
          [] t = "SubClassOf" -> "Class: " \o ToMs(k[1]) \o " SubClassOf: " \o ToMs(k[2])
          [] t = "EquivalentClasses" -> "EquivalentClasses: " \o Join(", ", Each(k[1].kids))
          [] t = "DisjointClasses" -> "DisjointClasses: " \o Join(", ", Each(k[1].kids))
          [] t = "DisjointUnion" ->
                "Class: " \o ToMs(k[1]) \o " DisjointUnionOf: " \o Join(", ", Each(k[2].kids))
          [] t = "SubObjectPropertyOf" ->
                IF IsObjectPropertyExpression(k[1])
                THEN "ObjectProperty: " \o ToMs(k[1]) \o " SubPropertyOf: " \o ToMs(k[2])
                ELSE "ObjectProperty: " \o ToMs(k[2]) \o " SubPropertyChain: "
                        \o Join(" o ", Each(k[1].kids))
          [] t \in {"EquivalentObjectProperties", "EquivalentDataProperties"} ->
                "EquivalentProperties: " \o Join(", ", Each(k[1].kids))
          [] t \in {"DisjointObjectProperties", "DisjointDataProperties"} ->
                "DisjointProperties: " \o Join(", ", Each(k[1].kids))
          [] t = "InverseObjectProperties" ->
                "ObjectProperty: " \o ToMs(k[1]) \o " InverseOf: " \o ToMs(k[2])
          [] t = "ObjectPropertyDomain" ->
                "ObjectProperty: " \o ToMs(k[1]) \o " Domain: " \o ToMs(k[2])
          [] t = "ObjectPropertyRange" ->
                "ObjectProperty: " \o ToMs(k[1]) \o " Range: " \o ToMs(k[2])
          [] t \in {"FunctionalObjectProperty", "InverseFunctionalObjectProperty",
                    "ReflexiveObjectProperty", "IrreflexiveObjectProperty",
                    "SymmetricObjectProperty", "AsymmetricObjectProperty",
                    "TransitiveObjectProperty"} ->
                "ObjectProperty: " \o ToMs(k[1]) \o " Characteristics: " \o Characteristic(t)
          [] t = "SubDataPropertyOf" ->
                "DataProperty: " \o ToMs(k[1]) \o " SubPropertyOf: " \o ToMs(k[2])
          [] t = "DataPropertyDomain" ->
                "DataProperty: " \o ToMs(k[1]) \o " Domain: " \o ToMs(k[2])
          [] t = "DataPropertyRange" ->
                "DataProperty: " \o ToMs(k[1]) \o " Range: " \o PyStr(k[2])
          [] t = "FunctionalDataProperty" ->
                "DataProperty: " \o ToMs(k[1]) \o " Characteristics: Functional"
          [] t = "HasKey" -> "Class: " \o ToMs(k[1]) \o " HasKey: " \o Join(", ", Each(k[2].kids))
          [] t = "SubAnnotationPropertyOf" ->
                "AnnotationProperty: " \o ToMs(k[1]) \o " SubPropertyOf: " \o ToMs(k[2])
          [] t = "AnnotationPropertyDomain" ->
                "AnnotationProperty: " \o ToMs(k[1]) \o " Domain: " \o IRIstr(value.first)
          [] t = "AnnotationPropertyRange" ->
                "AnnotationProperty: " \o ToMs(k[1]) \o " Range: " \o IRIstr(value.first)
          [] t = "Rule" ->
                "Rule: " \o Join(" and ", Each(k[1].kids)) \o " -> " \o Join(" and ", Each(k[2].kids))
          [] OTHER -> PyStr(value)

\* ------------------------------------------------------------------- ignore
\* the classes for which ignore() returns True whatever they hold
IgnoreAlways ==
    {"NamedIndividual", "AnonymousIndividual", "ObjectOneOf", "ObjectHasValue",
     "OntologyID", "DocIRI", "OntologyAnnotation", "Import", "DeclareClass",
     "DeclareObjectProperty", "DeclareAnnotationProperty", "DeclareDataProperty",
     "DeclareNamedIndividual", "DeclareDatatype", "SameIndividual",
     "DifferentIndividuals", "ClassAssertion", "ObjectPropertyAssertion",
     "NegativeObjectPropertyAssertion", "DataPropertyAssertion",
     "NegativeDataPropertyAssertion", "AnnotationAssertion"}

\* the classes of which ignore() looks at every item of the one list
IgnoreAnyOfList == {"ObjectIntersectionOf", "ObjectUnionOf", "EquivalentClasses", "DisjointClasses"}

\* the same with the ObjectSomeValuesFrom case left out
IgnoreSecondFieldWithoutSome ==
    {"ObjectAllValuesFrom", "ObjectMinCardinality", "ObjectMaxCardinality",
     "ObjectExactCardinality", "ObjectPropertyDomain", "ObjectPropertyRange"}

\* the classes of which ignore() looks at the class expression in second place
\* (value.bce, value.ce)
IgnoreSecondField ==
    {"ObjectSomeValuesFrom", "ObjectAllValuesFrom", "ObjectMinCardinality",
     "ObjectMaxCardinality", "ObjectExactCardinality", "ObjectPropertyDomain",
     "ObjectPropertyRange"}

\* the classes of which ignore() looks at both fields
IgnoreBothFields == {"ClassAtom", "DifferentIndividualsAtom", "SameIndividualAtom", "SubClassOf"}

\* ignore(value)
RECURSIVE Ignore(_)
Ignore(value) ==
    LET t == value.tag
        k == value.kids
        AnyIgnored(items) == \E i \in DOMAIN items : Ignore(items[i])
    IN  CASE t \in IgnoreAlways -> TRUE
          [] t \in IgnoreAnyOfList -> AnyIgnored(k[1].kids)
          [] t = "ObjectComplementOf" -> Ignore(k[1])
          [] t \in IgnoreSecondField -> Ignore(k[2])
          [] t \in IgnoreBothFields -> Ignore(k[1]) \/ Ignore(k[2])
          [] t = "ObjectPropertyAtom" -> AnyIgnored(k[2].kids)
          [] t = "DisjointUnion" -> AnyIgnored(k[2].kids)
          [] t = "HasKey" -> Ignore(k[1])
          [] t = "Rule" -> AnyIgnored(k[1].kids \o k[2].kids)
          [] OTHER -> FALSE

\* ------------------------------------------------------------------ Counter
\* A Counter is a dict: its items [k, v] in insertion order.

\* c[key] += by
Incr(c, key, by) ==
    IF DictHas(c, key)
    THEN [i \in DOMAIN c |-> IF c[i].k = key THEN [k |-> key, v |-> c[i].v + by] ELSE c[i]]
    ELSE Put(c, key, by)

\* Counter(items)
RECURSIVE CounterFrom(_, _)
CounterFrom(c, items) ==
    IF items = <<>> THEN c ELSE CounterFrom(Incr(c, Head(items), 1), Tail(items))

Counter(items) == CounterFrom(<<>>, items)

\* Counter._keep_positive()
KeepPositive(c) == SelectSeq(c, LAMBDA e : e.v > 0)

\* a += b on Counters
RECURSIVE CounterAddFrom(_, _)
CounterAddFrom(a, b) ==
    IF b = <<>> THEN a ELSE CounterAddFrom(Incr(a, Head(b).k, Head(b).v), Tail(b))

\* a.update(b) in place of a += b: the counts of b replace those of a
CounterUpdate(a, b) ==
    [i \in DOMAIN a |-> IF DictHas(b, a[i].k) THEN [k |-> a[i].k, v |-> Get(b, a[i].k)] ELSE a[i]]
        \o SelectSeq(b, LAMBDA e : ~DictHas(a, e.k))

CounterAdd(a, b) == KeepPositive(CounterAddFrom(a, b))

\* sorted(r.items(), key=lambda x: x[1], reverse=True): by count, largest
\* first, items of equal count in their order in r
RECURSIVE InsertByCount(_, _)
InsertByCount(sorted, e) ==
    IF sorted = <<>> THEN <<e>>
    ELSE IF Head(sorted).v >= e.v THEN <<Head(sorted)>> \o InsertByCount(Tail(sorted), e)
    ELSE <<e>> \o sorted

RECURSIVE SortedFrom(_, _)
SortedFrom(sorted, items) ==
    IF items = <<>> THEN sorted ELSE SortedFrom(InsertByCount(sorted, Head(items)), Tail(items))

\* a sort that is not stable: items of equal count come out in the reverse of
\* their order in r
SortedByCountTiesReversed(r) == SortedFrom(<<>>, [i \in DOMAIN r |-> r[Len(r) + 1 - i]])

SortedByCount(r) == SortedFrom(<<>>, r)

\* the rows _save_result(filename, r, writer) writes
SaveResult(filename, r) ==
    [i \in DOMAIN SortedByCount(r) |->
        [file |-> filename, pattern |-> ToMs(SortedByCount(r)[i].k), count |-> SortedByCount(r)[i].v]]

\* ------------------------------------------------------------------- inputs
\* The objects the ontology loader hands over, built with pyhornedowl's
\* constructors from a few identifiers.
ExA == "http://ex.org/A"
ExB == "http://ex.org/B"
ExX == "http://ex.org/X"
ExY == "http://ex.org/Y"

Ids == {ExA, ExB}

Class(i) == Entity("Class", IRIparse(i))
ObjectProperty(i) == Entity("ObjectProperty", IRIparse(i))
DataProperty(i) == Entity("DataProperty", IRIparse(i))
AnnotationProperty(i) == Entity("AnnotationProperty", IRIparse(i))
Variable(i) == Entity("Variable", IRIparse(i))
NamedIndividual(i) == Entity("NamedIndividual", IRIparse(i))
Datatype(i) == Entity("Datatype", IRIparse(i))
SimpleLiteral(text) == Entity("SimpleLiteral", IRIparse(text))

XsdInteger == Datatype("http://www.w3.org/2001/XMLSchema#integer")
Lit == SimpleLiteral("1")

ListOf(tag, items) == Compound(tag, <<PyList(items)>>)
Restricted(tag, n, p, c) == Node(tag, NoIRI, n, <<p, c>>)

\* class expressions that hold no other class expression
AtomicClassExpressions ==
    {Class(i) : i \in Ids}
        \cup {Compound("ObjectHasSelf", <<ObjectProperty(i)>>) : i \in Ids}
        \cup {Compound("DataSomeValuesFrom", <<DataProperty(i), XsdInteger>>) : i \in Ids}
        \cup {Compound("DataHasValue", <<DataProperty(i), Lit>>) : i \in Ids}
        \cup {Compound("DataAllValuesFrom", <<DataProperty(ExA), XsdInteger>>),
              Restricted("DataMinCardinality", 1, DataProperty(ExA), XsdInteger),
              Restricted("DataMaxCardinality", 1, DataProperty(ExB), XsdInteger),
              Restricted("DataExactCardinality", 2, DataProperty(ExA), XsdInteger),
              Compound("ObjectHasValue", <<ObjectProperty(ExA), NamedIndividual(ExB)>>),
              ListOf("ObjectOneOf", <<NamedIndividual(ExA)>>)}

\* the ways a class expression is held by another: the holder's class, and
\* the identifier of what it holds beside
Holders ==
    {<<"ObjectComplementOf", ExA>>, <<"ObjectMaxCardinality", ExA>>,
     <<"ObjectExactCardinality", ExB>>, <<"ObjectUnionOf", ExB>>}
        \cup ({"ObjectSomeValuesFrom", "ObjectAllValuesFrom", "ObjectMinCardinality",
               "ObjectIntersectionOf"} \X Ids)

\* the class expression that holds c in the way h
Held(h, c) ==
    CASE h[1] = "ObjectComplementOf" -> Compound("ObjectComplementOf", <<c>>)
      [] h[1] = "ObjectMaxCardinality" ->
            Restricted("ObjectMaxCardinality", 1,
                       Compound("InverseObjectProperty", <<ObjectProperty(h[2])>>), c)
      [] h[1] = "ObjectExactCardinality" -> Restricted("ObjectExactCardinality", 2, ObjectProperty(h[2]), c)
      [] h[1] = "ObjectUnionOf" -> ListOf("ObjectUnionOf", <<Class(h[2]), c>>)
      [] h[1] = "ObjectSomeValuesFrom" -> Compound("ObjectSomeValuesFrom", <<ObjectProperty(h[2]), c>>)
      [] h[1] = "ObjectAllValuesFrom" -> Compound("ObjectAllValuesFrom", <<ObjectProperty(h[2]), c>>)
      [] h[1] = "ObjectMinCardinality" -> Restricted("ObjectMinCardinality", 1, ObjectProperty(h[2]), c)
      [] h[1] = "ObjectIntersectionOf" -> ListOf("ObjectIntersectionOf", <<c, Class(h[2])>>)

\* the class expressions that hold the class expression c directly
Around(c) == {Held(h, c) : h \in Holders}

\* class expressions nested at most d deep
RECURSIVE ClassExpressions(_)
ClassExpressions(d) ==
    IF d = 0 THEN AtomicClassExpressions
    ELSE AtomicClassExpressions \cup {Held(h, c) : h \in Holders, c \in ClassExpressions(d - 1)}

Atom(tag, pred, args) == Compound(tag, <<pred, PyList(args)>>)
Rule(head, body) == Compound("Rule", <<PyList(head), PyList(body)>>)

\* the places an axiom holds a class expression in
AxiomPlaces ==
    {"SubClassOf.sup", "SubClassOf.sub", "EquivalentClasses", "DisjointClasses", "DisjointUnion",
     "ObjectPropertyDomain", "ObjectPropertyRange", "DataPropertyDomain", "HasKey", "Rule"}

\* the axiom that holds the class expression c in the place a
AxiomAbout(a, c) ==
    CASE a = "SubClassOf.sup" -> Compound("SubClassOf", <<Class(ExA), c>>)
      [] a = "SubClassOf.sub" -> Compound("SubClassOf", <<c, Class(ExB)>>)
      [] a = "EquivalentClasses" -> ListOf("EquivalentClasses", <<Class(ExA), c>>)
      [] a = "DisjointClasses" -> ListOf("DisjointClasses", <<c, Class(ExB)>>)
      [] a = "DisjointUnion" -> Compound("DisjointUnion", <<Class(ExA), PyList(<<Class(ExB), c>>)>>)
      [] a = "ObjectPropertyDomain" -> Compound("ObjectPropertyDomain", <<ObjectProperty(ExA), c>>)
      [] a = "ObjectPropertyRange" -> Compound("ObjectPropertyRange", <<ObjectProperty(ExB), c>>)
      [] a = "DataPropertyDomain" -> Compound("DataPropertyDomain", <<DataProperty(ExA), c>>)
      [] a = "HasKey" -> Compound("HasKey", <<c, PyList(<<ObjectProperty(ExA), DataProperty(ExB)>>)>>)
      [] a = "Rule" -> Rule(<<Compound("ClassAtom", <<c, Variable(ExA)>>)>>,
                            <<Compound("ClassAtom", <<Class(ExB), Variable(ExA)>>)>>)

\* the axioms about the class expression c
AxiomsAbout(c) == {AxiomAbout(a, c) : a \in AxiomPlaces}

CharacteristicAxioms ==
    {"FunctionalObjectProperty", "InverseFunctionalObjectProperty", "ReflexiveObjectProperty",
     "IrreflexiveObjectProperty", "SymmetricObjectProperty", "AsymmetricObjectProperty",
     "TransitiveObjectProperty"}

\* the axioms that hold no class expression
PropertyAxioms ==
    {Compound("SubObjectPropertyOf", <<ObjectProperty(i), ObjectProperty(j)>>) : i, j \in Ids}
        \cup {Compound("SubObjectPropertyOf",
                       <<PyList(<<ObjectProperty(i), ObjectProperty(j)>>), ObjectProperty(ExA)>>) : i, j \in Ids}
        \cup {ListOf("EquivalentObjectProperties", <<ObjectProperty(i), ObjectProperty(j)>>) : i, j \in Ids}
        \cup {ListOf("EquivalentDataProperties", <<DataProperty(i), DataProperty(j)>>) : i, j \in Ids}
        \cup {ListOf("DisjointObjectProperties", <<ObjectProperty(ExA), ObjectProperty(ExB)>>),
              ListOf("DisjointDataProperties", <<DataProperty(ExA), DataProperty(ExB)>>),
              Compound("InverseObjectProperties", <<ObjectProperty(ExA), ObjectProperty(ExB)>>),
              Compound("SubDataPropertyOf", <<DataProperty(ExA), DataProperty(ExB)>>),
              Compound("DataPropertyRange", <<DataProperty(ExA), XsdInteger>>),
              Compound("FunctionalDataProperty", <<DataProperty(ExA)>>),
              Compound("SubAnnotationPropertyOf", <<AnnotationProperty(ExA), AnnotationProperty(ExB)>>),
              Node("AnnotationPropertyDomain", IRIparse(ExB), 0, <<AnnotationProperty(ExA)>>),
              Node("AnnotationPropertyRange", IRIparse(ExB), 0, <<AnnotationProperty(ExA)>>)}
        \cup {Compound(t, <<ObjectProperty(ExA)>>) : t \in CharacteristicAxioms}

\* rules over the atoms that hold no class expression
RuleAxioms ==
    {Rule(<<Atom("ObjectPropertyAtom", ObjectProperty(ExA), <<Variable(ExA), Variable(ExB)>>)>>,
          <<Atom("ObjectPropertyAtom", ObjectProperty(ExB), <<Variable(ExB), Variable(ExA)>>)>>),
     Rule(<<Atom("ObjectPropertyAtom", ObjectProperty(ExA), <<Variable(ExA), NamedIndividual(ExB)>>)>>,
          <<Compound("ClassAtom", <<Class(ExA), Variable(ExA)>>)>>),
     Rule(<<Atom("DataPropertyAtom", DataProperty(ExA), <<Variable(ExA), Lit>>)>>,
          <<Compound("ClassAtom", <<Class(ExB), NamedIndividual(ExA)>>)>>),
     Rule(<<Atom("DataPropertyAtom", DataProperty(ExA), <<Variable(ExA), Variable(ExB)>>)>>,
          <<Node("BuiltInAtom", IRIparse("http://www.w3.org/2003/11/swrlb#equal"), 0,
                 <<PyList(<<Variable(ExB), Lit>>)>>)>>),
     Rule(<<Compound("SameIndividualAtom", <<Variable(ExA), Variable(ExB)>>)>>,
          <<Compound("DifferentIndividualsAtom", <<Variable(ExB), Variable(ExA)>>)>>),
     Rule(<<Compound("SameIndividualAtom", <<Variable(ExA), NamedIndividual(ExB)>>)>>,
          <<Compound("ClassAtom", <<Class(ExA), Variable(ExA)>>)>>)}

\* declarations, assertions and ontology metadata
OtherComponents ==
    {Compound("DeclareClass", <<Class(ExA)>>),
     Compound("DeclareObjectProperty", <<ObjectProperty(ExA)>>),
     Compound("DeclareNamedIndividual", <<NamedIndividual(ExA)>>),
     Compound("ClassAssertion", <<Class(ExA), NamedIndividual(ExB)>>),
     Compound("ObjectPropertyAssertion", <<ObjectProperty(ExA), NamedIndividual(ExA), NamedIndividual(ExB)>>),
     ListOf("SameIndividual", <<NamedIndividual(ExA), NamedIndividual(ExB)>>),
     ListOf("DifferentIndividuals", <<NamedIndividual(ExA), NamedIndividual(ExB)>>),
     Compound("AnnotationAssertion", <<AnnotationProperty(ExA), Lit>>),
     Node("Import", IRIparse(ExA), 0, <<>>)}

\* every component an ontology of the single-axiom runs may hold
Components ==
    {AxiomAbout(a, c) : a \in AxiomPlaces, c \in ClassExpressions(MaxDepth)}
        \cup PropertyAxioms \cup RuleAxioms \cup OtherComponents

\* the same object about other identifiers: A becomes X, B becomes Y
RECURSIVE Renamed(_)
Renamed(value) ==
    IF value.tag \in EntityKinds \cup {"NamedIndividual"}
    THEN Entity(value.tag, IRIparse(IF IRIstr(value.first) = ExA THEN ExX
                                    ELSE IF IRIstr(value.first) = ExB THEN ExY
                                    ELSE IRIstr(value.first)))
    ELSE Node(value.tag, value.first, value.n, [i \in DOMAIN value.kids |-> Renamed(value.kids[i])])

\* the components of the multi-file runs
FileComponents ==
    {Compound("SubClassOf", <<Class(ExA), Class(ExB)>>),
     Compound("SubClassOf", <<Class(ExX), Class(ExY)>>),
     Compound("SubClassOf", <<Class(ExA),
        Compound("ObjectSomeValuesFrom", <<ObjectProperty(ExB), ListOf("ObjectOneOf", <<NamedIndividual(ExX)>>)>>)>>),
     ListOf("EquivalentObjectProperties", <<ObjectProperty(ExA), ObjectProperty(ExB)>>),
     ListOf("EquivalentDataProperties", <<DataProperty(ExX), DataProperty(ExY)>>)}

\* the sequences over S of length at most n
RECURSIVE SeqsUpTo(_, _)
SeqsUpTo(S, n) ==
    IF n = 0 THEN {<<>>}
    ELSE SeqsUpTo(S, n - 1) \cup {Append(q, x) : q \in SeqsUpTo(S, n - 1), x \in S}

\* the values the tests pass to normalise() on one shared Context
SessionValues ==
    {Entity(kind, IRIparse(i)) : kind \in EntityKinds, i \in Ids}
        \cup {ListOf("ObjectIntersectionOf", <<Class(ExA), Class(ExB)>>),
              ListOf("ObjectUnionOf", <<Class(ExA), Class(ExB)>>),
              Compound("ObjectSomeValuesFrom", <<ObjectProperty(ExA), Class(ExA)>>),
              Restricted("ObjectMinCardinality", 1, ObjectProperty(ExB), Class(ExA)),
              Compound("SubClassOf", <<Class(ExA),
                  Compound("ObjectSomeValuesFrom", <<ObjectProperty(ExB), Class(ExB)>>)>>),
              ListOf("EquivalentClasses",
                  <<Compound("DataSomeValuesFrom", <<DataProperty(ExA), XsdInteger>>),
                    Compound("DataHasValue", <<DataProperty(ExA), Lit>>)>>)}

\* -------------------------------------------------------------------- state
VARIABLES
    inputs,             \* main: args.input, the paths given on the command line
    output_mode,        \* main: args.output_mode
    pc,                 \* where the program is
    taken,              \* main: how many inputs the for loop has taken; input is inputs[taken]
    disk,               \* what open_ontology_from_file found for each input taken
    ontology,           \* analyse_file: ontology.get_axioms(), the components in order
    pos,                \* analyse_file: how many of them the for loop has taken
    value,              \* the object last handed to ignore() or normalise()
    branch,             \* analyse_file: what became of it, "ignored" or "kept"
    ctx,                \* the Context in use
    normalised,         \* what normalise() or sub() last returned
    normalised_axioms,  \* analyse_file: the list of that name
    aggregate,          \* main: the Counter of that name
    rows,               \* the rows written to the csv writer after the header
    item,               \* the item a generator last yielded
    calls,              \* how many calls the shared Context has served
    frame               \* _index_to_str: its locals index and res

vars == <<inputs, output_mode, pc, taken, disk, ontology, pos, value, branch, ctx,
          normalised, normalised_axioms, aggregate, rows, item, calls, frame>>

None == Compound("None", <<>>)
NoItem == [index |-> 0, name |-> "", gen |-> "none"]
NoFrame == [index |-> 0, res |-> ""]

FileName(j) == "f" \o IntStr(j) \o ".owl"

\* the axioms read so far in this run
RECURSIVE AxiomsRead(_)
AxiomsRead(d) == IF d = <<>> THEN 0 ELSE Len(Head(d).axioms) + AxiomsRead(Tail(d))

Start(files, modes, at) ==
    /\ inputs \in {[j \in 1..n |-> FileName(j)] : n \in files}
    /\ output_mode \in modes
    /\ pc = at
    /\ taken = 0
    /\ disk = <<>>
    /\ ontology = <<>>
    /\ pos = 0
    /\ value = None
    /\ branch = "none"
    /\ ctx = NewContext
    /\ normalised = None
    /\ normalised_axioms = <<>>
    /\ aggregate = <<>>
    /\ rows = <<>>
    /\ item = NoItem
    /\ calls = 0
    /\ frame = NoFrame

\* main() up to the for loop over inputs
Init == Start(1..MaxFiles, {"aggregate", "individual"}, "main")

\* ------------------------------------------------------------ analyse_file
\* open_ontology_from_file raises and nothing catches it: the run ends there
OpenFailsAborts ==
    /\ pc = "main"
    /\ taken < Len(inputs)
    /\ taken' = taken + 1
    /\ disk' = Append(disk, [name |-> inputs[taken + 1], axioms |-> <<>>, readable |-> FALSE])
    /\ pc' = "done"
    /\ UNCHANGED <<inputs, output_mode, ontology, pos, value, branch, ctx, normalised,
                   normalised_axioms, aggregate, rows, item, calls, frame>>

\* open_ontology_from_file raises: analyse_file returns Counter(), which main
\* adds to aggregate or saves
OpenFails ==
    /\ pc = "main"
    /\ taken < Len(inputs)
    /\ taken' = taken + 1
    /\ disk' = Append(disk, [name |-> inputs[taken + 1], axioms |-> <<>>, readable |-> FALSE])
    /\ IF output_mode = "aggregate"
       THEN aggregate' = CounterAdd(aggregate, Counter(<<>>)) /\ rows' = rows
       ELSE rows' = rows \o SaveResult(inputs[taken + 1], Counter(<<>>)) /\ aggregate' = aggregate
    /\ UNCHANGED <<inputs, output_mode, pc, ontology, pos, value, branch, ctx, normalised,
                   normalised_axioms, item, calls, frame>>

\* open_ontology_from_file returns one of the ontologies in contents
Open(contents) ==
    /\ pc = "main"
    /\ taken < Len(inputs)
    /\ \E o \in contents :
          /\ ontology' = o
          /\ disk' = Append(disk, [name |-> inputs[taken + 1], axioms |-> o, readable |-> TRUE])
    /\ taken' = taken + 1
    /\ pos' = 0
    /\ normalised_axioms' = <<>>
    /\ pc' = "loop"
    /\ UNCHANGED <<inputs, output_mode, value, branch, ctx, normalised, aggregate, rows, item, calls, frame>>

\* the ontologies of the multi-file runs
FileOntologies == SeqsUpTo(FileComponents, MaxAxioms)

\* the ontologies of the single-axiom runs: a component, and the same about
\* other identifiers
PairOntologies == {<<c, Renamed(c)>> : c \in Components}

\* a file of a multi-file run
OpenFile ==
    LET room == MaxAxioms - AxiomsRead(disk)
    IN  Open({o \in FileOntologies : Len(o) <= room})

\* the file of a single-axiom run
OpenPair == Open(PairOntologies)

\* the loop body for a component ignore() accepts: continue
SkipAxiom ==
    /\ pc = "loop"
    /\ pos < Len(ontology)
    /\ Ignore(ontology[pos + 1])
    /\ value' = ontology[pos + 1]
    /\ branch' = "ignored"
    /\ pos' = pos + 1
    /\ UNCHANGED <<inputs, output_mode, pc, taken, disk, ontology, ctx, normalised,
                   normalised_axioms, aggregate, rows, item, calls, frame>>

\* the loop body for any other component: normalise it with a Context of its
\* own and append
KeepAxiom ==
    /\ pc = "loop"
    /\ pos < Len(ontology)
    /\ ~Ignore(ontology[pos + 1])
    /\ value' = ontology[pos + 1]
    /\ branch' = "kept"
    /\ pos' = pos + 1
    /\ LET r == Normalise(ontology[pos + 1], NewContext)
       IN  /\ ctx' = r.ctx
           /\ normalised' = r.node
           /\ normalised_axioms' = Append(normalised_axioms, r.node)
    /\ UNCHANGED <<inputs, output_mode, pc, taken, disk, ontology, aggregate, rows, item, calls, frame>>

\* analyse_file returns Counter(normalised_axioms); aggregate mode adds it
ReturnAggregate ==
    /\ pc = "loop"
    /\ pos = Len(ontology)
    /\ output_mode = "aggregate"
    /\ aggregate' = CounterAdd(aggregate, Counter(normalised_axioms))
    /\ pc' = "main"
    /\ UNCHANGED <<inputs, output_mode, taken, disk, ontology, pos, value, branch, ctx,
                   normalised, normalised_axioms, rows, item, calls, frame>>

\* individual mode keeping one table for all files: each file's counts are
\* added to those of the files before it, and the sum is saved
ReturnIndividualMerged ==
    /\ pc = "loop"
    /\ pos = Len(ontology)
    /\ output_mode = "individual"
    /\ aggregate' = CounterAdd(aggregate, Counter(normalised_axioms))
    /\ rows' = rows \o SaveResult(inputs[taken], aggregate')
    /\ pc' = "main"
    /\ UNCHANGED <<inputs, output_mode, taken, disk, ontology, pos, value, branch, ctx,
                   normalised, normalised_axioms, item, calls, frame>>

\* analyse_file returns Counter(normalised_axioms); individual mode saves it
ReturnIndividual ==
    /\ pc = "loop"
    /\ pos = Len(ontology)
    /\ output_mode = "individual"
    /\ rows' = rows \o SaveResult(inputs[taken], Counter(normalised_axioms))
    /\ pc' = "main"
    /\ UNCHANGED <<inputs, output_mode, taken, disk, ontology, pos, value, branch, ctx,
                   normalised, normalised_axioms, aggregate, item, calls, frame>>

\* after the loop, aggregate mode saves the aggregate
SaveAggregate ==
    /\ pc = "main"
    /\ taken = Len(inputs)
    /\ output_mode = "aggregate"
    /\ rows' = rows \o SaveResult(IF Len(inputs) = 1 THEN inputs[taken] ELSE "", aggregate)
    /\ pc' = "done"
    /\ UNCHANGED <<inputs, output_mode, taken, disk, ontology, pos, value, branch, ctx,
                   normalised, normalised_axioms, aggregate, item, calls, frame>>

\* after the loop, individual mode has nothing left to write
Finish ==
    /\ pc = "main"
    /\ taken = Len(inputs)
    /\ output_mode = "individual"
    /\ pc' = "done"
    /\ UNCHANGED <<inputs, output_mode, taken, disk, ontology, pos, value, branch, ctx,
                   normalised, normalised_axioms, aggregate, rows, item, calls, frame>>

Next ==
    \/ OpenFails
    \/ OpenFile
    \/ SkipAxiom
    \/ KeepAxiom
    \/ ReturnAggregate
    \/ ReturnIndividual
    \/ SaveAggregate
    \/ Finish

\* a run of main over one or more files
Spec == Init /\ [][Next]_vars

\* a run of main over one file of two components, the second the first about
\* other identifiers
InitAxiom == Start({1}, {"individual"}, "main")

NextAxiom ==
    \/ OpenPair
    \/ SkipAxiom
    \/ KeepAxiom
    \/ ReturnIndividual
    \/ Finish

SpecAxiom == InitAxiom /\ [][NextAxiom]_vars

\* ------------------------------------------------- calls on a shared Context
\* ctx = Context(), as each test begins
InitContext == Start({1}, {"aggregate"}, "session")

\* normalise(v, ctx)
CallNormalise ==
    /\ pc = "session"
    /\ calls < MaxCalls
    /\ \E v \in SessionValues :
          /\ value' = v
          /\ normalised' = Normalise(v, ctx).node
          /\ ctx' = Normalise(v, ctx).ctx
    /\ calls' = calls + 1
    /\ UNCHANGED <<inputs, output_mode, pc, taken, disk, ontology, pos, branch,
                   normalised_axioms, aggregate, rows, item, frame>>

\* sub(v, ctx)
CallSub ==
    /\ pc = "session"
    /\ calls < MaxCalls
    /\ \E v \in {w \in SessionValues : w.tag \in EntityKinds} :
          /\ value' = v
          /\ normalised' = Sub(v, ctx).node
          /\ ctx' = Sub(v, ctx).ctx
    /\ calls' = calls + 1
    /\ UNCHANGED <<inputs, output_mode, pc, taken, disk, ontology, pos, branch,
                   normalised_axioms, aggregate, rows, item, frame>>

NextContext == CallNormalise \/ CallSub

SpecContext == InitContext /\ [][NextContext]_vars

\* ------------------------------------------------------- the name generators
InitGenerators == Start({1}, {"aggregate"}, "generators")

\* next(ctx.classes)
NextClass ==
    /\ pc = "generators"
    /\ ctx.classes < MaxIndex
    /\ item' = [index |-> ctx.classes, name |-> ClassName(ctx.classes), gen |-> "classes"]
    /\ ctx' = [ctx EXCEPT !.classes = @ + 1]
    /\ UNCHANGED <<inputs, output_mode, pc, taken, disk, ontology, pos, value, branch,
                   normalised, normalised_axioms, aggregate, rows, calls, frame>>

\* next(ctx.properties)
NextProperty ==
    /\ pc = "generators"
    /\ ctx.properties < MaxIndex
    /\ item' = [index |-> ctx.properties, name |-> PropertyName(ctx.properties), gen |-> "properties"]
    /\ ctx' = [ctx EXCEPT !.properties = @ + 1]
    /\ UNCHANGED <<inputs, output_mode, pc, taken, disk, ontology, pos, value, branch,
                   normalised, normalised_axioms, aggregate, rows, calls, frame>>

\* next(ctx.variables)
NextVariable ==
    /\ pc = "generators"
    /\ ctx.variables < MaxIndex
    /\ item' = [index |-> ctx.variables, name |-> VarName(ctx.variables), gen |-> "variables"]
    /\ ctx' = [ctx EXCEPT !.variables = @ + 1]
    /\ UNCHANGED <<inputs, output_mode, pc, taken, disk, ontology, pos, value, branch,
                   normalised, normalised_axioms, aggregate, rows, calls, frame>>

NextGenerators == NextClass \/ NextProperty \/ NextVariable

SpecGenerators == InitGenerators /\ [][NextGenerators]_vars

\* ------------------------------------------------------------ _index_to_str
\* the alphabet a generator hands to _index_to_str
ChoicesOf(gen) == IF gen = "classes" THEN ClassChoices ELSE PropertyChoices

InitIndexToStr == Start({1}, {"aggregate"}, "generator")

\* a generator calls _index_to_str(i, choices): length = len(choices), res = ""
CallIndexToStr ==
    /\ pc = "generator"
    /\ \E gen \in {"classes", "properties"}, i \in 0..MaxArgument :
          /\ item' = [index |-> i, name |-> "", gen |-> gen]
          /\ frame' = [index |-> i, res |-> ""]
    /\ pc' = "while"
    /\ UNCHANGED <<inputs, output_mode, taken, disk, ontology, pos, value, branch, ctx,
                   normalised, normalised_axioms, aggregate, rows, calls>>

\* the loop body with the length taken one too short in the remainder
LoopStepShortRemainder ==
    /\ pc = "while"
    /\ frame.index >= 0
    /\ LET choices == ChoicesOf(item.gen)
           length == Len(choices)
       IN  frame' = [index |-> (frame.index \div length) - 1,
                     res |-> choices[(frame.index % (length - 1)) + 1] \o frame.res]
    /\ UNCHANGED <<inputs, output_mode, pc, taken, disk, ontology, pos, value, branch, ctx,
                   normalised, normalised_axioms, aggregate, rows, item, calls>>

\* while index >= 0: the loop body
LoopStep ==
    /\ pc = "while"
    /\ frame.index >= 0
    /\ LET choices == ChoicesOf(item.gen)
           length == Len(choices)
       IN  frame' = [index |-> (frame.index \div length) - 1,
                     res |-> choices[(frame.index % length) + 1] \o frame.res]
    /\ UNCHANGED <<inputs, output_mode, pc, taken, disk, ontology, pos, value, branch, ctx,
                   normalised, normalised_axioms, aggregate, rows, item, calls>>

\* the loop is left: return res, the item the generator yields
ReturnIndexToStr ==
    /\ pc = "while"
    /\ frame.index < 0
    /\ item' = [item EXCEPT !.name = frame.res]
    /\ pc' = "returned"
    /\ UNCHANGED <<inputs, output_mode, taken, disk, ontology, pos, value, branch, ctx,
                   normalised, normalised_axioms, aggregate, rows, calls, frame>>

NextIndexToStr == CallIndexToStr \/ LoopStep \/ ReturnIndexToStr

\* one call of _index_to_str; the interpreter goes on running the loop and
\* the return
SpecIndexToStr ==
    InitIndexToStr /\ [][NextIndexToStr]_vars
        /\ WF_vars(LoopStep) /\ WF_vars(ReturnIndexToStr)

\* ------------------------------------------------------ reading the objects
\* the entities an object holds, depth first and left to right
RECURSIVE Leaves(_)
RECURSIVE LeavesOfEach(_)
LeavesOfEach(items) == IF items = <<>> THEN <<>> ELSE Leaves(Head(items)) \o LeavesOfEach(Tail(items))

Leaves(v) ==
    IF v.tag \in EntityKinds \cup {"NamedIndividual", "AnonymousIndividual"} THEN <<v>>
    ELSE LeavesOfEach(v.kids)

\* the object with its entities' identifiers blanked
RECURSIVE Shape(_)
Shape(v) ==
    IF v.tag \in EntityKinds \cup {"NamedIndividual", "AnonymousIndividual"} THEN Entity(v.tag, NoIRI)
    ELSE Node(v.tag, v.first, v.n, [i \in DOMAIN v.kids |-> Shape(v.kids[i])])

\* the object and every object inside it
RECURSIVE Subterms(_)
Subterms(v) == {v} \cup UNION {Subterms(v.kids[i]) : i \in DOMAIN v.kids}

ClassExpressionTags ==
    {"Class", "ObjectIntersectionOf", "ObjectUnionOf", "ObjectComplementOf", "ObjectOneOf",
     "ObjectSomeValuesFrom", "ObjectAllValuesFrom", "ObjectHasValue", "ObjectHasSelf",
     "ObjectMinCardinality", "ObjectMaxCardinality", "ObjectExactCardinality",
     "DataSomeValuesFrom", "DataAllValuesFrom", "DataHasValue", "DataMinCardinality",
     "DataMaxCardinality", "DataExactCardinality"}

HoldsNominal(v) == \E w \in Subterms(v) : w.tag \in {"ObjectOneOf", "ObjectHasValue"}

HoldsIndividual(v) == \E w \in Subterms(v) : w.tag \in {"NamedIndividual", "AnonymousIndividual"}

\* a and b have one shape, and their identifiers correspond one to one
SameUpToRenaming(a, b) ==
    /\ Shape(a) = Shape(b)
    /\ \A i, j \in DOMAIN Leaves(a) :
          (Leaves(a)[i].first = Leaves(a)[j].first) <=> (Leaves(b)[i].first = Leaves(b)[j].first)

\* the canonical form analyse_file counts a retained component under
Canonical(axiom) == Normalise(axiom, NewContext).node

\* ------------------------------------------------------------------ claims
\* C1: two retained axioms of one shape whose identifiers correspond one to
\* one have equal canonical nodes and character-equal to_ms strings.
C1_RenamingInvariance ==
    (pc = "loop" /\ pos = 2 /\ Len(normalised_axioms) = 2
        /\ SameUpToRenaming(ontology[1], ontology[2]))
    => /\ normalised_axioms[1] = normalised_axioms[2]
       /\ ToMs(normalised_axioms[1]) = ToMs(normalised_axioms[2])

\* where in the files opened the retained components are
KeptPlaces == {p \in {<<f, a>> : f \in DOMAIN disk, a \in 1..MaxAxioms} :
                 /\ p[2] <= Len(disk[p[1]].axioms)
                 /\ ~Ignore(disk[p[1]].axioms[p[2]])}

FormAt(p) == Canonical(disk[p[1]].axioms[p[2]])

Forms == {FormAt(p) : p \in KeptPlaces}

\* the sum over the files of the retained components whose canonical form is k
CountOf(k) == Cardinality({p \in KeptPlaces : FormAt(p) = k})

SubAB == Compound("SubClassOf", <<Class(ExA), Class(ExB)>>)
SubXY == Compound("SubClassOf", <<Class(ExX), Class(ExY)>>)

C3_KeyingAgreement ==
    /\ \A i, j \in DOMAIN normalised_axioms :
          (normalised_axioms[i] = normalised_axioms[j])
              <=> (ToMs(normalised_axioms[i]) = ToMs(normalised_axioms[j]))
    /\ \A i, j \in DOMAIN rows :
          (i # j /\ rows[i].file = rows[j].file) => rows[i].pattern # rows[j].pattern

Scenario2 ==
    Compound("SubClassOf", <<Class(ExA),
        Compound("ObjectSomeValuesFrom", <<ObjectProperty(ExA), ListOf("ObjectOneOf", <<NamedIndividual(ExA)>>)>>)>>)

\* C4: ignore() is true of every class expression that holds an ObjectOneOf
\* or an ObjectHasValue at any depth; a SubClassOf with such a side is
\* skipped and adds nothing to the counts.
C4_FilterClosure ==
    branch # "none"
    => /\ \A ce \in Subterms(value) :
              (ce.tag \in ClassExpressionTags /\ HoldsNominal(ce)) => Ignore(ce)
       /\ (value.tag = "SubClassOf" /\ HoldsNominal(value))
              => /\ branch = "ignored"
                 /\ normalised_axioms = <<>>
                 /\ pc = "done" => rows = <<>>

C4_Witness ==
    /\ pc = "done"
    /\ ontology[1] = Scenario2
    /\ branch = "ignored"
    /\ rows = <<>>

\* C5: every component that holds an individual or a nominal class
\* expression anywhere is ignored, never normalised or counted.
C5_IndividualsIgnored ==
    (branch # "none" /\ (HoldsIndividual(value) \/ HoldsNominal(value))) => branch = "ignored"

\* C6: normalise() returns an object of the same class with the same
\* children in the same places, only the identifiers changed, and an
\* ObjectPropertyRange is rendered with "Range:".
C6_StructurePreserved ==
    branch = "kept"
    => /\ Shape(normalised) = Shape(value)
       /\ value.tag = "ObjectPropertyRange"
              => ToMs(normalised) = "ObjectProperty: " \o ToMs(normalised.kids[1])
                                        \o " Range: " \o ToMs(normalised.kids[2])

\* C7: after normalise() of a retained axiom no Class, property or Variable
\* in the result carries an original identifier: each carries a name
\* recorded in the Context's substitutions.
C7_CompleteSubstitution ==
    branch = "kept"
    => \A i \in DOMAIN Leaves(normalised) :
          Leaves(normalised)[i].tag \in EntityKinds
          => /\ \E j \in DOMAIN ctx.substitutions :
                    ctx.substitutions[j].v = Leaves(normalised)[i].first
             /\ \A j \in DOMAIN Leaves(value) :
                    Leaves(value)[j].first # Leaves(normalised)[i].first

\* C8: on one Context an entry of substitutions is never changed or removed,
\* and every occurrence, in the value just normalised, of an identifier that
\* has a name recorded carries that name.
C8_IdentifierStability ==
    [][/\ \A i \in DOMAIN ctx.substitutions :
             i \in DOMAIN ctx'.substitutions /\ ctx'.substitutions[i] = ctx.substitutions[i]
       /\ \A i, j \in DOMAIN ctx'.substitutions :
             ctx'.substitutions[i].k = ctx'.substitutions[j].k => i = j
       /\ Len(Leaves(normalised')) = Len(Leaves(value'))
       /\ \A j \in DOMAIN Leaves(value') :
             DictHas(ctx'.substitutions, IRIstr(Leaves(value')[j].first))
             => Leaves(normalised')[j].first
                    = Get(ctx'.substitutions, IRIstr(Leaves(value')[j].first))]_vars

\* the generator an entity's class draws from
Family(kind) ==
    IF kind = "Class" THEN "classes" ELSE IF kind \in PropertyKinds THEN "properties" ELSE "variables"

FamilyName(family, i) ==
    CASE family = "classes" -> ClassName(i)
      [] family = "properties" -> PropertyName(i)
      [] family = "variables" -> VarName(i)

\* where the j-th entity of v occurs first, an entity being a class and an
\* identifier
FirstOccurrence(v, j) ==
    CHOOSE f \in 1..j :
        /\ Leaves(v)[f].tag = Leaves(v)[j].tag /\ Leaves(v)[f].first = Leaves(v)[j].first
        /\ \A m \in 1..(f - 1) :
              Leaves(v)[m].tag # Leaves(v)[j].tag \/ Leaves(v)[m].first # Leaves(v)[j].first

\* how many distinct entities of the family of the j-th entity of v occur
\* before its first occurrence
Rank(v, j) ==
    Cardinality({<<Leaves(v)[m].tag, Leaves(v)[m].first>> : m \in
        {m \in 1..(FirstOccurrence(v, j) - 1) :
            Family(Leaves(v)[m].tag) = Family(Leaves(v)[j].tag)}})

\* the value holds none of the expressions that C5 and C7 find normalise()
\* to leave as they are
Traversed(v) == \A w \in Subterms(v) : w.tag \notin {"DataHasValue", "ObjectHasValue", "ObjectOneOf"}

\* C9: in one normalise() pass on a fresh Context the i-th distinct entity of
\* a family, in depth-first left-to-right order of first occurrence, gets
\* the i-th name of the family's sequence, an entity being a class and an
\* identifier.
C9_FirstOccurrenceNaming ==
    (branch = "kept" /\ Traversed(value))
    => /\ Len(Leaves(normalised)) = Len(Leaves(value))
       /\ \A j \in DOMAIN Leaves(value) :
             IRIstr(Leaves(normalised)[j].first)
                = FamilyName(Family(Leaves(value)[j].tag), Rank(value, j))

\* C10: the class generator, over the 15 letters A to O, yields "A" to "O" at
\* indices 0 to 14 and "AA" at index 15; the variable generator yields "X0"
\* at index 0.
C10_NamingBoundary ==
    /\ item.gen = "classes"
          => /\ item.index <= Ord("O") - Ord("A") => item.name = Letters[item.index + 1]
             /\ item.index = Ord("O") - Ord("A") + 1 => item.name = "AA"
    /\ (item.gen = "variables" /\ item.index = 0) => item.name = "X0"

\* no identifier of v is held by entities of two classes
KindsApart(v) ==
    \A i, j \in DOMAIN Leaves(v) :
        (Leaves(v)[i].tag = Leaves(v)[j].tag) \/ (Leaves(v)[i].first # Leaves(v)[j].first)

\* C11: on a fresh Context the k-th distinct class becomes Class "C<k>" and
\* the k-th distinct object or data property a property "R<k>", as the tests
\* of normalise() assert: SubClassOf(A, p some B) becomes
\* SubClassOf(C0, R0 some C1).
C11_TestNames ==
    (branch = "kept" /\ Traversed(value) /\ KindsApart(value))
    => /\ Len(Leaves(normalised)) = Len(Leaves(value))
       /\ \A j \in DOMAIN Leaves(value) :
             /\ Leaves(value)[j].tag = "Class"
                   => IRIstr(Leaves(normalised)[j].first) = "C" \o IntStr(Rank(value, j))
             /\ Leaves(value)[j].tag \in {"ObjectProperty", "DataProperty"}
                   => IRIstr(Leaves(normalised)[j].first) = "R" \o IntStr(Rank(value, j))

\* analyse_file(file) for a file that opens and holds these components
RECURSIVE NormalisedAxioms(_)
NormalisedAxioms(axioms) ==
    IF axioms = <<>> THEN <<>>
    ELSE IF Ignore(Head(axioms)) THEN NormalisedAxioms(Tail(axioms))
    ELSE <<Canonical(Head(axioms))>> \o NormalisedAxioms(Tail(axioms))

AnalyseFile(axioms) == Counter(NormalisedAxioms(axioms))

\* main's aggregate after these files, and the rows of its individual mode
RECURSIVE AggregateOver(_)
AggregateOver(files) ==
    IF files = <<>> THEN <<>>
    ELSE CounterAdd(AggregateOver(SubSeq(files, 1, Len(files) - 1)),
                    AnalyseFile(files[Len(files)].axioms))

RECURSIVE IndividualOver(_)
IndividualOver(files) ==
    IF files = <<>> THEN <<>>
    ELSE SaveResult(Head(files).name, AnalyseFile(Head(files).axioms)) \o IndividualOver(Tail(files))

\* the places of t that hold a key not met before
Firsts(t) == {i \in DOMAIN t : \A j \in 1..(i - 1) : t[j] # t[i]}

\* how many times the key at place i occurs in t
Times(t, i) == Cardinality({j \in DOMAIN t : t[j] = t[i]})

\* the rows labelled with the f-th file's name
RowsOf(f) == {j \in DOMAIN rows : rows[j].file = inputs[f]}

\* C12: when an individual run is over, every row carries the name of one of
\* the files, each file has one row for each canonical form found in that
\* file with that file's own count, the files' rows follow in the files'
\* order, and no aggregate table is kept or written; SubClassOf(A, B) in one
\* file and SubClassOf(X, Y) in another give two rows with count 1.
C12_IndividualTables ==
    (pc = "done" /\ output_mode = "individual")
    => /\ \A j \in DOMAIN rows : \E f \in DOMAIN disk : rows[j].file = inputs[f]
       /\ \A f \in DOMAIN disk :
             LET t == NormalisedAxioms(disk[f].axioms)
             IN  /\ Cardinality(RowsOf(f)) = Cardinality(Firsts(t))
                 /\ \A i \in Firsts(t) :
                       Cardinality({j \in RowsOf(f) :
                                       rows[j].pattern = ToMs(t[i]) /\ rows[j].count = Times(t, i)})
                           = Cardinality({h \in Firsts(t) :
                                             ToMs(t[h]) = ToMs(t[i]) /\ Times(t, h) = Times(t, i)})
       /\ \A f, g \in DOMAIN disk : \A i \in RowsOf(f), j \in RowsOf(g) : f < g => i < j
       /\ aggregate = <<>>
       /\ (Len(disk) = 2 /\ disk[1].axioms = <<SubAB>> /\ disk[2].axioms = <<SubXY>>)
              => rows = <<[file |-> inputs[1], pattern |-> "Class: A SubClassOf: B", count |-> 1],
                          [file |-> inputs[2], pattern |-> "Class: A SubClassOf: B", count |-> 1]>>

\* SubClassOf(A, B) in the first file, SubClassOf(X, Y) in the second: two rows, count 1 each
C12_Witness ==
    /\ pc = "done"
    /\ output_mode = "individual"
    /\ Len(disk) = 2
    /\ disk[1].axioms = <<SubAB>>
    /\ disk[2].axioms = <<SubXY>>
    /\ rows = <<[file |-> "f1.owl", pattern |-> "Class: A SubClassOf: B", count |-> 1],
                [file |-> "f2.owl", pattern |-> "Class: A SubClassOf: B", count |-> 1]>>

\* the files taken so far that opened
Opened == SelectSeq(disk, LAMBDA d : d.readable)

\* rows without their labels
Unlabelled(rws) == [i \in DOMAIN rws |-> [pattern |-> rws[i].pattern, count |-> rws[i].count]]

\* C13: a file that fails to open adds nothing and stops nothing: between
\* files and at the end, the aggregate counts and the rows written are those
\* of a run over the files that opened alone, and at the end every input
\* has been taken.
C13_LoadFailureIsolation ==
    (pc \in {"main", "done"})
    => /\ pc = "done" => (taken = Len(inputs) /\ Len(disk) = Len(inputs))
       /\ output_mode = "aggregate"
             => LET expected == AggregateOver(Opened)
                IN  /\ aggregate = expected
                    /\ pc = "main" => rows = <<>>
                    /\ pc = "done" => Unlabelled(rows) = Unlabelled(SaveResult("", expected))
       /\ output_mode = "individual" => rows = IndividualOver(Opened)

\* a run that is over, in which one file failed to open and another gave rows
C13_Witness ==
    /\ pc = "done"
    /\ \E f \in DOMAIN disk : ~disk[f].readable
    /\ \E f \in DOMAIN disk : disk[f].readable /\ NormalisedAxioms(disk[f].axioms) # <<>>
    /\ rows # <<>>

\* the canonical forms counted into a table, in the order counted: the f-th
\* file's in individual mode, all files' in aggregate mode (f = 0)
RECURSIVE AllNormalised(_)
AllNormalised(files) ==
    IF files = <<>> THEN <<>>
    ELSE NormalisedAxioms(Head(files).axioms) \o AllNormalised(Tail(files))

TableAxioms(f) == IF f = 0 THEN AllNormalised(disk) ELSE NormalisedAxioms(disk[f].axioms)

\* where the row of the key first met at place i of t stands among its
\* table's rows: after the keys of larger count and the keys of equal count
\* inserted earlier
PlaceInTable(t, i) ==
    1 + Cardinality({j \in Firsts(t) :
            \/ Times(t, j) > Times(t, i)
            \/ (Times(t, j) = Times(t, i) /\ j < i)})

\* the rows written before the f-th file's table
RowsBefore(f) == Cardinality({j \in DOMAIN rows : \E g \in 1..(f - 1) : rows[j].file = inputs[g]})

\* the tables written: the aggregate one, or one for each file
TablesWritten == IF output_mode = "aggregate" THEN {0} ELSE DOMAIN disk

\* C14: when a run is over, in each table written the counts never increase
\* from a row to the next, keys of equal count stand in the order in which
\* they were inserted into the table, and every count is at least 1.
C14_EmissionOrder ==
    pc = "done"
    => /\ \A j \in DOMAIN rows : rows[j].count >= 1
       /\ \A i, j \in DOMAIN rows :
             (i < j /\ rows[i].file = rows[j].file) => rows[i].count >= rows[j].count
       /\ \A f \in TablesWritten :
             LET t == TableAxioms(f)
             IN  \A i \in Firsts(t) :
                    LET j == RowsBefore(f) + PlaceInTable(t, i)
                    IN  /\ j \in DOMAIN rows
                        /\ rows[j].pattern = ToMs(t[i])
                        /\ rows[j].count = Times(t, i)

\* a table in which the key inserted second has the larger count and stands
\* first
C14_Witness ==
    /\ pc = "done"
    /\ Len(rows) = 2
    /\ rows[1].count = 2
    /\ rows[2].count = 1
    /\ \E f \in TablesWritten :
           LET t == TableAxioms(f)
           IN  \E h, k \in Firsts(t) :
                  h < k /\ PlaceInTable(t, k) = 1 /\ PlaceInTable(t, h) = 2

\* C15: for the class and the property alphabet, a call of _index_to_str
\* with an index of 0 or more returns, the loop's index going down at every
\* pass; what it returns is not empty, is returned for no other index, and is
\* no shorter than what a smaller index gives, the strings of length 1 being
\* those of the indices below the alphabet's length.
C15_InjectiveTerminating ==
    /\ [][(pc = "while" /\ frame.index >= 0)
              => (frame'.index < frame.index /\ frame'.index >= -1)]_vars
    /\ [](pc = "returned"
            => LET choices == ChoicesOf(item.gen)
               IN  /\ item.name = IndexToStr(item.index, choices)
                   /\ Len(item.name) >= 1
                   /\ \A j \in 0..MaxArgument :
                         j # item.index => IndexToStr(j, choices) # item.name
                   /\ \A j \in 0..MaxArgument :
                         j < item.index => Len(IndexToStr(j, choices)) <= Len(item.name)
                   /\ Len(item.name) = 1 <=> item.index < Len(choices))
    /\ (pc = "while") ~> (pc = "returned")

\* the call returns a name of three letters: the loop has made three passes
C15_Witness ==
    /\ pc = "returned"
    /\ item.gen = "properties"
    /\ Len(item.name) = 3

====
